---- MODULE Spec2Model ----
(***************************************************************************)
(* Model of the scholarship chatbot backend (src/main.py): the /chat      *)
(* request handler with its single-record profile store, and the pure     *)
(* text functions it is built from (validate_input, extract_user_details, *)
(* analyze_query_type, create_scholarship_prompt, format_response).       *)
(*                                                                         *)
(* Texts are TLA+ strings, i.e. sequences of characters; the regular      *)
(* expressions of the source are written as syntax trees and matched by   *)
(* a backtracking matcher that follows the rules of Python's re module.   *)
(* Strings of a module must be ASCII, so the two bullet glyphs of         *)
(* format_response (U+2022 and U+00B7) are written BULLET and MIDDOT.     *)
(***************************************************************************)
EXTENDS Integers, Sequences, FiniteSets, TLC

(***************************************************************************)
(* Characters and strings                                                  *)
(***************************************************************************)
Ch(s, i) == SubSeq(s, i, i)

CharsOf(s) == { Ch(s, i) : i \in 1..Len(s) }

LowerLetters == "abcdefghijklmnopqrstuvwxyz"

UpperLetters == "ABCDEFGHIJKLMNOPQRSTUVWXYZ"

Digits == CharsOf("0123456789")

\* \w of Python's re: letters, digits and the underscore
WordChars == CharsOf(LowerLetters) \cup CharsOf(UpperLetters) \cup Digits \cup {"_"}

\* \s of Python's re, and the characters str.strip() removes
Spaces == {" ", "\t", "\n", "\r", "\f"}

\* stand-ins for the glyphs U+2022 and U+00B7
BULLET == "@"

MIDDOT == "^"

\* s repeated n times (by halving, so that long paddings stay shallow)
RECURSIVE Repeat(_, _)
Repeat(s, n) ==
    IF n = 0 THEN ""
    ELSE LET h == Repeat(s, n \div 2)
         IN  IF n % 2 = 0 THEN h \o h ELSE h \o h \o s

\* str.lower() on one character, and on a string
LowerCh(c) ==
    IF c \in CharsOf(UpperLetters)
    THEN Ch(LowerLetters, CHOOSE i \in 1..Len(UpperLetters) : Ch(UpperLetters, i) = c)
    ELSE c

RECURSIVE LowerFrom(_, _)
LowerFrom(s, i) ==
    IF i > Len(s) THEN "" ELSE LowerCh(Ch(s, i)) \o LowerFrom(s, i + 1)

Lower(s) ==
    IF \A i \in 1..Len(s) : Ch(s, i) \notin CharsOf(UpperLetters) THEN s ELSE LowerFrom(s, 1)

\* str.upper() on one character, and on a string
UpperCh(c) ==
    IF c \in CharsOf(LowerLetters)
    THEN Ch(UpperLetters, CHOOSE i \in 1..Len(LowerLetters) : Ch(LowerLetters, i) = c)
    ELSE c

RECURSIVE Upper(_)
Upper(s) == IF s = "" THEN "" ELSE UpperCh(Ch(s, 1)) \o Upper(SubSeq(s, 2, Len(s)))

SetMin(S) == CHOOSE x \in S : \A y \in S : x <= y

SetMax(S) == CHOOSE x \in S : \A y \in S : x >= y

\* str.strip(): drop the leading and the trailing whitespace
Strip(s) ==
    LET keep == { i \in 1..Len(s) : Ch(s, i) \notin Spaces }
    IN  IF keep = {} THEN "" ELSE SubSeq(s, SetMin(keep), SetMax(keep))

\* str.rstrip(): drop the trailing whitespace
RStrip(s) ==
    LET keep == { i \in 1..Len(s) : Ch(s, i) \notin Spaces }
    IN  IF keep = {} THEN "" ELSE SubSeq(s, 1, SetMax(keep))

\* str.split(sep): the pieces between the occurrences of the character sep
RECURSIVE SplitOn(_, _, _)
SplitOn(s, sep, from) ==
    LET hits == { i \in from..Len(s) : Ch(s, i) = sep }
    IN  IF hits = {} THEN << SubSeq(s, from, Len(s)) >>
        ELSE << SubSeq(s, from, SetMin(hits) - 1) >> \o SplitOn(s, sep, SetMin(hits) + 1)

\* str.split(): the maximal runs of non-whitespace characters
RECURSIVE SplitWords(_, _)
SplitWords(s, from) ==
    LET starts == { i \in from..Len(s) : Ch(s, i) \notin Spaces }
    IN  IF starts = {} THEN << >>
        ELSE LET b    == SetMin(starts)
                 stop == { i \in b..Len(s) : Ch(s, i) \in Spaces }
                 e    == IF stop = {} THEN Len(s) + 1 ELSE SetMin(stop)
             IN  << SubSeq(s, b, e - 1) >> \o SplitWords(s, e)

\* sep.join(parts)
RECURSIVE JoinFrom(_, _, _)
JoinFrom(parts, sep, k) ==
    IF k > Len(parts) THEN ""
    ELSE IF k = Len(parts) THEN parts[k]
    ELSE parts[k] \o sep \o JoinFrom(parts, sep, k + 1)

Join(parts, sep) == JoinFrom(parts, sep, 1)

\* "p in s" of Python: p occurs in s as a substring
Contains(s, p) ==
    \E i \in 1..(Len(s) - Len(p) + 1) : SubSeq(s, i, i + Len(p) - 1) = p

(***************************************************************************)
(* Regular expressions (Python re): syntax trees and a backtracking       *)
(* matcher.  Ends(re, s, i) is the sequence of the positions at which a   *)
(* match of re that starts at position i of s can end (the match is       *)
(* s[i..j-1]), in the order in which the backtracking matcher tries them: *)
(* its head is the match re.match would return.                           *)
(***************************************************************************)
Lit(str) == [op |-> "lit", s |-> str]

Set(cs) == [op |-> "set", cs |-> cs]

NotSet(cs) == [op |-> "nset", cs |-> cs]

Alt(rs) == [op |-> "alt", rs |-> rs]

Cat(rs) == [op |-> "cat", rs |-> rs]

\* r{lo,hi}, greedy; hi = -1 stands for no upper limit
Rep(r, lo, hi) == [op |-> "rep", r |-> r, lo |-> lo, hi |-> hi]

Star(r) == Rep(r, 0, -1)

Plus(r) == Rep(r, 1, -1)

Opt(r) == Rep(r, 0, 1)

\* \b
WB == [op |-> "wb"]

\* ^ (ml: with re.MULTILINE)
BOL(ml) == [op |-> "bol", ml |-> ml]

\* $
EOL == [op |-> "eol"]

\* \s, \d, . and an alternation of literal strings
Space == Set(Spaces)

Digit == Set(Digits)

Dot == NotSet({"\n"})

RECURSIVE LitsFrom(_, _)
LitsFrom(strs, k) ==
    IF k > Len(strs) THEN << >> ELSE << Lit(strs[k]) >> \o LitsFrom(strs, k + 1)

AnyOf(strs) == Alt(LitsFrom(strs, 1))

\* \b(a|b|...)\b
Word(strs) == Cat(<< WB, AnyOf(strs), WB >>)

IsWordAt(s, k) == k >= 1 /\ k <= Len(s) /\ Ch(s, k) \in WordChars

RECURSIVE Ends(_, _, _)
RECURSIVE EndsAlt(_, _, _, _)
RECURSIVE EndsCat(_, _, _, _)
RECURSIVE EndsCatOver(_, _, _, _, _)
RECURSIVE EndsRep(_, _, _, _, _)
RECURSIVE EndsRepOver(_, _, _, _, _, _, _)

Ends(re, s, i) ==
    CASE re.op = "lit"  -> IF i + Len(re.s) - 1 <= Len(s) /\ SubSeq(s, i, i + Len(re.s) - 1) = re.s
                           THEN << i + Len(re.s) >> ELSE << >>
      [] re.op = "set"  -> IF i <= Len(s) /\ Ch(s, i) \in re.cs THEN << i + 1 >> ELSE << >>
      [] re.op = "nset" -> IF i <= Len(s) /\ Ch(s, i) \notin re.cs THEN << i + 1 >> ELSE << >>
      [] re.op = "alt"  -> EndsAlt(re.rs, 1, s, i)
      [] re.op = "cat"  -> EndsCat(re.rs, 1, s, i)
      [] re.op = "rep"  -> EndsRep(re.r, re.lo, re.hi, s, i)
      [] re.op = "wb"   -> IF IsWordAt(s, i - 1) # IsWordAt(s, i) THEN << i >> ELSE << >>
      [] re.op = "bol"  -> IF i = 1 \/ (re.ml /\ i > 1 /\ Ch(s, i - 1) = "\n") THEN << i >> ELSE << >>
      [] re.op = "eol"  -> IF i = Len(s) + 1 \/ (i = Len(s) /\ Ch(s, i) = "\n") THEN << i >> ELSE << >>

\* a|b: the ends of a, then the ends of b
EndsAlt(rs, k, s, i) ==
    IF k > Len(rs) THEN << >> ELSE Ends(rs[k], s, i) \o EndsAlt(rs, k + 1, s, i)

\* ab: for each end of a, in order, the ends of b from there
EndsCat(rs, k, s, i) ==
    IF k > Len(rs) THEN << i >> ELSE EndsCatOver(Ends(rs[k], s, i), 1, rs, k, s)

EndsCatOver(js, n, rs, k, s) ==
    IF n > Len(js) THEN << >>
    ELSE EndsCat(rs, k + 1, s, js[n]) \o EndsCatOver(js, n + 1, rs, k, s)

\* r{lo,hi}, greedy: one more repetition first, then stopping here
EndsRep(r, lo, hi, s, i) ==
    (IF hi # 0 THEN EndsRepOver(Ends(r, s, i), 1, r, lo, hi, s, i) ELSE << >>)
    \o (IF lo <= 0 THEN << i >> ELSE << >>)

EndsRepOver(js, n, r, lo, hi, s, i) ==
    IF n > Len(js) THEN << >>
    ELSE (IF js[n] > i
          THEN EndsRep(r, IF lo > 0 THEN lo - 1 ELSE 0, IF hi = -1 THEN -1 ELSE hi - 1, s, js[n])
          ELSE << >>)
         \o EndsRepOver(js, n + 1, r, lo, hi, s, i)

\* the positions from which re matches
MatchStarts(re, s, from) == { i \in from..(Len(s) + 1) : Ends(re, s, i) # << >> }

\* re.search(re, s) is not None
Search(re, s) == MatchStarts(re, s, 1) # {}

\* any(re.search(p, s) for p in patterns)
SearchAny(res, s) == \E k \in 1..Len(res) : Search(res[k], s)

\* re.search from position from: the leftmost match, as <<start, end>>, or << >>
FirstMatch(re, s, from) ==
    LET starts == MatchStarts(re, s, from)
    IN  IF starts = {} THEN << >>
        ELSE LET b == SetMin(starts) IN << b, Head(Ends(re, s, b)) >>

\* The match of a concatenation with the ends of its parts: the boundaries
\* <<j_k, ..., j_n>> of the first way, in backtracking order, to match the
\* parts rs[k..n] from position i; << >> when there is none.  Part m of the
\* match is s[j_(m-1) .. j_m - 1], which gives the groups of the pattern.
RECURSIVE FirstPath(_, _, _, _)
RECURSIVE FirstPathOver(_, _, _, _, _)

FirstPath(rs, k, s, i) == FirstPathOver(Ends(rs[k], s, i), 1, rs, k, s)

FirstPathOver(js, n, rs, k, s) ==
    IF n > Len(js) THEN << >>
    ELSE IF k = Len(rs) THEN << js[n] >>
    ELSE LET rest == FirstPath(rs, k + 1, s, js[n])
         IN  IF rest # << >> THEN << js[n] >> \o rest
             ELSE FirstPathOver(js, n + 1, rs, k, s)

\* re.sub(re, repl, s) for a constant replacement and a pattern that matches
\* no empty string
RECURSIVE SubConst(_, _, _, _)
SubConst(re, repl, s, from) ==
    LET m == FirstMatch(re, s, from)
    IN  IF m = << >> THEN SubSeq(s, from, Len(s))
        ELSE SubSeq(s, from, m[1] - 1) \o repl \o SubConst(re, repl, s, m[2])

(***************************************************************************)
(* format_response (src/main.py 576-583)                                   *)
(***************************************************************************)
\* \n{3,}
NewlineRun == Rep(Lit("\n"), 3, -1)

\* (#{1,6})\s*([^\n]+), as the parts of the concatenation
HeadingParts == << Rep(Lit("#"), 1, 6), Star(Space), Plus(NotSet({"\n"})) >>

\* ^\s*[bullet glyphs]\s* with re.MULTILINE
BulletMarker == Cat(<< BOL(TRUE), Star(Space), Set({BULLET, MIDDOT}), Star(Space) >>)

\* re.sub(r'(#{1,6})\s*([^\n]+)', r'\1 \2', s)
RECURSIVE SubHeading(_, _)
SubHeading(s, from) ==
    LET starts == { i \in from..Len(s) : FirstPath(HeadingParts, 1, s, i) # << >> }
    IN  IF starts = {} THEN SubSeq(s, from, Len(s))
        ELSE LET b == SetMin(starts)
                 p == FirstPath(HeadingParts, 1, s, b)
             IN  SubSeq(s, from, b - 1)
                 \o SubSeq(s, b, p[1] - 1) \o " " \o SubSeq(s, p[2], p[3] - 1)
                 \o SubHeading(s, p[3])

\* [line.rstrip() for line in lines]
RECURSIVE RStripAll(_, _)
RStripAll(lines, k) ==
    IF k > Len(lines) THEN << >> ELSE << RStrip(lines[k]) >> \o RStripAll(lines, k + 1)

\* a post-processor that appends a follow-up question to a text that does not
\* end with a question mark or an exclamation mark
format_response_with_follow_up(text) ==
    LET t1 == SubConst(NewlineRun, "\n\n", text, 1)
        t2 == SubHeading(t1, 1)
        t3 == SubConst(BulletMarker, BULLET \o " ", t2, 1)
        t4 == Strip(Join(RStripAll(SplitOn(t3, "\n", 1), 1), "\n"))
    IN  IF t4 # "" /\ Ch(t4, Len(t4)) \in {"?", "!"}
        THEN t4
        ELSE t4 \o " Anything else?"

format_response(text) ==
    LET t1 == SubConst(NewlineRun, "\n\n", text, 1)
        t2 == SubHeading(t1, 1)
        t3 == SubConst(BulletMarker, BULLET \o " ", t2, 1)
        lines == SplitOn(t3, "\n", 1)
        cleaned_lines == RStripAll(lines, 1)
        t4 == Join(cleaned_lines, "\n")
    IN  Strip(t4)

(***************************************************************************)
(* validate_input (src/main.py 585-595): <<is_valid, result>>              *)
(***************************************************************************)
MaxQueryLen == 1000

MinQueryLen == 3

\* a validation that measures the upper limit on the trimmed text
validate_input_trimmed_limit(user_input) ==
    IF user_input = "" \/ Strip(user_input) = ""
    THEN << FALSE, "Please provide a valid query" >>
    ELSE IF Len(Strip(user_input)) < MinQueryLen
    THEN << FALSE, "Query too short. Please provide more details" >>
    ELSE IF Len(Strip(user_input)) > MaxQueryLen
    THEN << FALSE, "Query too long. Please keep it under 1000 characters" >>
    ELSE << TRUE, Strip(user_input) >>

validate_input(user_input) ==
    IF user_input = "" \/ Strip(user_input) = ""
    THEN << FALSE, "Please provide a valid query" >>
    ELSE IF Len(Strip(user_input)) < MinQueryLen
    THEN << FALSE, "Query too short. Please provide more details" >>
    ELSE IF Len(user_input) > MaxQueryLen
    THEN << FALSE, "Query too long. Please keep it under 1000 characters" >>
    ELSE << TRUE, Strip(user_input) >>

(***************************************************************************)
(* lemmatize_text (src/main.py 60-62).  WordNetLemmatizer.lemmatize is     *)
(* library code: it is the table of the noun lemmas of the words that the *)
(* keyword lists and the sample queries contain, and the identity on      *)
(* every other word.                                                       *)
(***************************************************************************)
LemmaTable ==
    << << "scholarships", "scholarship" >>, << "fees", "fee" >>, << "types", "type" >>,
       << "kinds", "kind" >>, << "providers", "provider" >>, << "categories", "category" >>,
       << "capabilities", "capability" >>, << "does", "doe" >>, << "students", "student" >>,
       << "girls", "girl" >>, << "grants", "grant" >> >>

lemmatize(word) ==
    IF \E k \in 1..Len(LemmaTable) : LemmaTable[k][1] = word
    THEN LemmaTable[CHOOSE k \in 1..Len(LemmaTable) : LemmaTable[k][1] = word][2]
    ELSE word

RECURSIVE LemmatizeAll(_, _)
LemmatizeAll(words, k) ==
    IF k > Len(words) THEN << >> ELSE << lemmatize(words[k]) >> \o LemmatizeAll(words, k + 1)

lemmatize_text(text) == Join(LemmatizeAll(SplitWords(text, 1), 1), " ")

(***************************************************************************)
(* extract_user_details (src/main.py 64-146)                               *)
(***************************************************************************)
\* Python's None, True and False as stored in a profile field
None == "None"

True == "True"

False == "False"

DetailKeys ==
    << "caste", "income", "gender", "course_level", "is_hostel", "cgpa",
       "is_minority", "has_disability", "ex_serviceman_parent", "scholarship_type" >>

\* the dictionaries of patterns, in insertion order: << key, pattern >>
caste_patterns ==
    << << "sc", Word(<< "sc", "scheduled caste" >>) >>,
       << "st", Word(<< "st", "scheduled tribe" >>) >>,
       << "obc", Word(<< "obc", "other backward class" >>) >>,
       << "general", Word(<< "general", "open" >>) >>,
       << "minority", Word(<< "minority", "muslim", "christian", "sikh", "jain", "parsi", "buddhist" >>) >> >>

\* lacs?
Lacs == Cat(<< Lit("lac"), Opt(Lit("s")) >>)

\* \d+\.?\d*
Number == Cat(<< Plus(Digit), Opt(Lit(".")), Star(Digit) >>)

income_pattern ==
    Cat(<< WB, AnyOf(<< "income", "family income" >>), Star(Space),
           Opt(AnyOf(<< "is", "of" >>)), Star(Space),
           Alt(<< Lit("below"), Lit("under"),
                  Cat(<< Number, Star(Space),
                         Opt(Alt(<< Lit("lakh"), Lacs, Lit("k"), Lit("thousand") >>)) >>),
                  Cat(<< Plus(Digit), Star(Space), Lit("to"), Star(Space), Number, Star(Space),
                         Alt(<< Lit("lakh"), Lacs >>) >>) >>),
           WB >>)

female_pattern == Word(<< "girl", "female", "woman" >>)

male_pattern == Word(<< "boy", "male", "man" >>)

course_patterns ==
    << << "ug", Cat(<< WB,
                       Alt(<< Lit("bsc"), Lit("ba"), Lit("be"), Lit("btech"), Lit("bcom"),
                              Lit("undergraduate"), Lit("1st year"), Lit("2nd year"), Lit("3rd year"),
                              Cat(<< Lit("b"), Opt(Lit(".")), Lit("sc"), Opt(Lit(".")), Star(Space),
                                     Opt(AnyOf(<< "cs", "computer science" >>)) >>) >>),
                       WB >>) >>,
       << "pg", Word(<< "msc", "ma", "mtech", "mcom", "postgraduate", "master" >>) >> >>

hostel_pattern == Word(<< "hostel", "staying in hostel", "hosteller" >>)

not_hostel_pattern == Word(<< "not in hostel", "day scholar" >>)

\* \b(\d+\.?\d*)\s*(?:cgpa|percentage|percent|marks)\b, as the parts of the concatenation
cgpa_parts ==
    << WB, Number, Star(Space), AnyOf(<< "cgpa", "percentage", "percent", "marks" >>), WB >>

disability_pattern == Word(<< "disability", "disabled", "handicap" >>)

ex_serviceman_pattern == Word(<< "ex-serviceman", "freedom fighter", "parent is ex-serviceman" >>)

\* option\s*n|choose\s*n|select\s*n|n
OptionNumber(n) ==
    << Cat(<< Lit("option"), Star(Space), Lit(n) >>), Cat(<< Lit("choose"), Star(Space), Lit(n) >>),
       Cat(<< Lit("select"), Star(Space), Lit(n) >>), Lit(n) >>

scholarship_types ==
    << << "government",
          Cat(<< WB, Alt(LitsFrom(<< "government", "govt", "mahadbt", "nsp", "national scholarship" >>, 1)
                         \o OptionNumber("1")), WB >>) >>,
       << "private",
          Cat(<< WB, Alt(LitsFrom(<< "private", "buddy4study", "vidyasaarathi" >>, 1)
                         \o OptionNumber("2")), WB >>) >>,
       << "ngo",
          Cat(<< WB, Alt(LitsFrom(<< "ngo", "non-profit", "charity" >>, 1)
                         \o OptionNumber("3")), WB >>) >>,
       << "college",
          Cat(<< WB, Alt(LitsFrom(<< "college", "university", "mumbai university", "pune university" >>, 1)
                         \o OptionNumber("4")), WB >>) >> >>

\* for key, pattern in patterns.items(): if re.search(pattern, s): ... break
\* the key of the first pattern that matches, None when none does
FirstKey(patterns, s) ==
    LET hits == { k \in 1..Len(patterns) : Search(patterns[k][2], s) }
    IN  IF hits = {} THEN None ELSE patterns[SetMin(hits)][1]

\* match.group(0) of re.search(re, s), None when there is no match
Group0(re, s) ==
    LET m == FirstMatch(re, s, 1)
    IN  IF m = << >> THEN None ELSE SubSeq(s, m[1], m[2] - 1)

\* match.group(1) of the search for the cgpa pattern, None when there is no match
CgpaGroup(s) ==
    LET starts == { i \in 1..(Len(s) + 1) : FirstPath(cgpa_parts, 1, s, i) # << >> }
    IN  IF starts = {} THEN None
        ELSE LET b == SetMin(starts)
                 p == FirstPath(cgpa_parts, 1, s, b)
             IN  SubSeq(s, p[1], p[2] - 1)

\* float(numeral) for a numeral \d+\.?\d*, written as Python writes the float
\* (repr): no leading zeros, no trailing zeros in the fraction, at least one
\* digit after the point
RECURSIVE DropLeadingZeros(_)
DropLeadingZeros(d) ==
    IF Len(d) > 1 /\ Ch(d, 1) = "0" THEN DropLeadingZeros(SubSeq(d, 2, Len(d))) ELSE d

RECURSIVE DropTrailingZeros(_)
DropTrailingZeros(d) ==
    IF Len(d) > 0 /\ Ch(d, Len(d)) = "0" THEN DropTrailingZeros(SubSeq(d, 1, Len(d) - 1)) ELSE d

FloatOf(numeral) ==
    LET parts == SplitOn(numeral, ".", 1)
        whole == DropLeadingZeros(parts[1])
        frac  == IF Len(parts) > 1 THEN DropTrailingZeros(parts[2]) ELSE ""
    IN  whole \o "." \o (IF frac = "" THEN "0" ELSE frac)

\* an extractor whose disability flag is false when nothing was said about it
extract_user_details_two_state(user_input) ==
    LET user_input_lower == Strip(Lower(user_input))
        caste == FirstKey(caste_patterns, user_input_lower)
        cgpa_match == CgpaGroup(user_input_lower)
    IN  [ caste |-> caste,
          income |-> Group0(income_pattern, user_input_lower),
          gender |-> IF Search(female_pattern, user_input_lower) THEN "female"
                     ELSE IF Search(male_pattern, user_input_lower) THEN "male"
                     ELSE None,
          course_level |-> FirstKey(course_patterns, user_input_lower),
          is_hostel |-> IF Search(hostel_pattern, user_input_lower) THEN True
                        ELSE IF Search(not_hostel_pattern, user_input_lower) THEN False
                        ELSE None,
          cgpa |-> IF cgpa_match # None THEN FloatOf(cgpa_match) ELSE None,
          is_minority |-> IF caste = "minority" THEN True ELSE None,
          has_disability |-> IF Search(disability_pattern, user_input_lower) THEN True ELSE False,
          ex_serviceman_parent |-> IF Search(ex_serviceman_pattern, user_input_lower) THEN True ELSE None,
          scholarship_type |-> FirstKey(scholarship_types, user_input_lower) ]

\* extract_user_details (src/main.py 64-146)
extract_user_details(user_input) ==
    LET user_input_lower == Strip(Lower(user_input))
        caste == FirstKey(caste_patterns, user_input_lower)
        cgpa_match == CgpaGroup(user_input_lower)
    IN  [ caste |-> caste,
          income |-> Group0(income_pattern, user_input_lower),
          gender |-> IF Search(female_pattern, user_input_lower) THEN "female"
                     ELSE IF Search(male_pattern, user_input_lower) THEN "male"
                     ELSE None,
          course_level |-> FirstKey(course_patterns, user_input_lower),
          is_hostel |-> IF Search(hostel_pattern, user_input_lower) THEN True
                        ELSE IF Search(not_hostel_pattern, user_input_lower) THEN False
                        ELSE None,
          cgpa |-> IF cgpa_match # None THEN FloatOf(cgpa_match) ELSE None,
          is_minority |-> IF caste = "minority" THEN True ELSE None,
          has_disability |-> IF Search(disability_pattern, user_input_lower) THEN True ELSE None,
          ex_serviceman_parent |-> IF Search(ex_serviceman_pattern, user_input_lower) THEN True ELSE None,
          scholarship_type |-> FirstKey(scholarship_types, user_input_lower) ]

(***************************************************************************)
(* analyze_query_type (src/main.py 148-318).  A score is a number in      *)
(* units of 1/ScoreUnit, which makes every weight, half weight and        *)
(* product of the multipliers of one intent an integer: the scores are    *)
(* the exact values of the sums and products that the source computes in  *)
(* floating point.                                                         *)
(***************************************************************************)
ScoreUnit == 40 * 200

\* a weight or bonus written in hundredths
Weight(hundredths) == (hundredths * ScoreUnit) \div 100

\* score * (num / den)
Times(score, num, den) == (score * num) \div den

\* the intent table, in insertion order
intent_keywords ==
    << [ intent |-> "greeting",
         keywords |-> << "hi", "hello", "hey", "namaste", "good morning", "good afternoon",
                         "good evening" >>,
         weight |-> Weight(100) ],
       [ intent |-> "bot_info",
         keywords |-> << "what can you do", "what do you do", "how can you help",
                         "tell me about yourself", "who are you", "what are you",
                         "your capabilities", "help me", "about this chatbot" >>,
         weight |-> Weight(90) ],
       [ intent |-> "bot_functionality",
         keywords |-> << "how does this work", "how do you work", "how to use this chatbot",
                         "how you find scholarships", "how does it work", "explain how you work",
                         "how to get scholarship through you" >>,
         weight |-> Weight(90) ],
       [ intent |-> "casual",
         keywords |-> << "how are you", "what's up", "how is your day", "tell me a joke",
                         "thank you", "thanks", "okay", "ok", "yes", "no", "maybe",
                         "i am fine", "good", "nice", "cool", "awesome", "great" >>,
         weight |-> Weight(70) ],
       [ intent |-> "scholarship_query",
         keywords |-> << "scholarship", "financial aid", "education loan", "study help", "fees",
                         "grant", "mahadbt", "nsp", "government scheme", "tuition fee",
                         "hostel allowance", "eligibility", "application", "deadline",
                         "scholarship list", "available scholarships" >>,
         weight |-> Weight(95) ],
       [ intent |-> "scholarship_personalized",
         keywords |-> << "i am", "i'm", "my category", "my income", "student", "bsc", "msc",
                         "engineering", "medical", "college", "university", "sc", "st", "obc",
                         "general", "low income", "merit", "find scholarship",
                         "scholarship for me", "looking for scholarship", "need scholarship" >>,
         weight |-> Weight(110) ],
       [ intent |-> "scholarship_types",
         keywords |-> << "scholarship types", "types of scholarships", "government scholarship",
                         "private scholarship", "ngo scholarship", "college scholarship",
                         "university scholarship", "mahadbt", "buddy4study", "mumbai university",
                         "scholarship providers", "kinds of scholarships",
                         "scholarship categories" >>,
         weight |-> Weight(100) ],
       [ intent |-> "scholarship_type_selection",
         keywords |-> << "government", "govt", "private", "ngo", "college", "university",
                         "mahadbt", "buddy4study", "national scholarship", "vidyasaarathi",
                         "mumbai university", "pune university",
                         "option 1", "choose 1", "select 1", "1",
                         "option 2", "choose 2", "select 2", "2",
                         "option 3", "choose 3", "select 3", "3",
                         "option 4", "choose 4", "select 4", "4" >>,
         weight |-> Weight(150) ],
       [ intent |-> "general_conversation",
         keywords |-> << >>,
         weight |-> Weight(50) ] >>

Intents == { intent_keywords[k].intent : k \in 1..Len(intent_keywords) }

RECURSIVE LemmatizeKeywords(_, _)
LemmatizeKeywords(keywords, k) ==
    IF k > Len(keywords) THEN << >>
    ELSE << lemmatize_text(keywords[k]) >> \o LemmatizeKeywords(keywords, k + 1)

lemmatized_keywords ==
    [ k \in 1..Len(intent_keywords) |->
        [ intent |-> intent_keywords[k].intent,
          keywords |-> LemmatizeKeywords(intent_keywords[k].keywords, 1),
          weight |-> intent_keywords[k].weight ] ]

\* the entry of an intent in lemmatized_keywords
KeywordsOf(intent) ==
    lemmatized_keywords[CHOOSE k \in 1..Len(intent_keywords) :
                            intent_keywords[k].intent = intent].keywords

question_patterns ==
    << Cat(<< BOL(FALSE),
              AnyOf(<< "what", "how", "where", "when", "why", "who", "can you", "tell me" >>), WB >>),
       Cat(<< Star(Dot), Lit("?"), EOL >>) >>

personalized_patterns ==
    << Cat(<< WB, Lit("i"), Alt(<< Lit("'m"), Lit(" am") >>), WB, Star(Dot),
              AnyOf(<< "student", "category", "income", "scholarship" >>) >>),
       Cat(<< WB, Lit("my "), AnyOf(<< "category", "income", "course", "degree" >>), WB >>),
       Cat(<< WB, AnyOf(<< "sc", "st", "obc", "general" >>), WB, Star(Dot), Lit("scholarship") >>) >>

scholarship_types_patterns ==
    << Cat(<< WB, AnyOf(<< "type", "kind", "category", "categories", "source", "provider" >>),
              Star(Dot), AnyOf(<< "scholarship", "grants" >>), WB >>),
       Cat(<< WB, AnyOf(<< "government", "private", "ngo", "college", "university", "mahadbt",
                           "buddy4study", "mumbai university" >>), WB, Star(Dot),
              Lit("scholarship") >>),
       Cat(<< WB, Lit("what "), AnyOf(<< "type", "kind", "category", "categories" >>), Star(Dot),
              AnyOf(<< "scholarship", "grants" >>), WB >>),
       Cat(<< WB, Lit("scholarship"), Star(Dot),
              AnyOf(<< "type", "kind", "category", "categories", "source", "provider" >>), WB >>) >>

scholarship_type_selection_patterns ==
    << Word(<< "government", "govt", "private", "ngo", "college", "university", "mahadbt",
               "buddy4study", "nsp", "vidyasaarathi", "mumbai university", "pune university" >>),
       Cat(<< BOL(FALSE), AnyOf(<< "option", "choose", "select" >>), Star(Space),
              Set({"1", "2", "3", "4"}), EOL >>),
       Cat(<< BOL(FALSE), Digit, EOL >>) >>

negation_keywords == << "not", "no", "don't", "doesn't" >>

\* the members of a sequence
Range(seq) == { seq[k] : k \in 1..Len(seq) }

\* the number of keywords of a list that occur in the text as substrings
KeywordHits(keywords, text) == Cardinality({ k \in 1..Len(keywords) : Contains(text, keywords[k]) })

\* the number of one-word keywords of a list that are a token of the text
TokenHits(keywords, text) ==
    Cardinality({ k \in 1..Len(keywords) :
                    /\ Len(SplitWords(keywords[k], 1)) = 1
                    /\ keywords[k] \in Range(SplitWords(text, 1)) })

\* the scores after the two keyword loops (src/main.py 255-265)
KeywordScores(user_input_lemmatized) ==
    [ i \in Intents |->
        LET data == lemmatized_keywords[CHOOSE k \in 1..Len(intent_keywords) :
                                            intent_keywords[k].intent = i]
        IN  KeywordHits(data.keywords, user_input_lemmatized) * data.weight
            + TokenHits(data.keywords, user_input_lemmatized) * (data.weight \div 2) ]

\* the multiplier inverted: intent_scores[intent] /= num / den
ScaledDown(scores, cond, intents, num, den) ==
    [ i \in DOMAIN scores |->
        IF cond /\ i \in intents THEN Times(scores[i], den, num) ELSE scores[i] ]

\* intent_scores[intent] *= num / den for the intents of a set, when cond holds
Scaled(scores, cond, intents, num, den) ==
    [ i \in DOMAIN scores |->
        IF cond /\ i \in intents THEN Times(scores[i], num, den) ELSE scores[i] ]

\* no bonus: the scores as they were
NotRaised(scores, cond, intent, bonus) == scores

\* intent_scores[intent] += bonus, when cond holds
Raised(scores, cond, intent, bonus) ==
    [ i \in DOMAIN scores |-> IF cond /\ i = intent THEN scores[i] + bonus ELSE scores[i] ]

\* the final scores (src/main.py 267-309)
IntentScores(user_input) ==
    LET user_input_lower == Strip(Lower(user_input))
        user_input_lemmatized == lemmatize_text(user_input_lower)
        s0 == KeywordScores(user_input_lemmatized)
        is_question == SearchAny(question_patterns, user_input_lower)
        s1 == Scaled(s0, is_question,
                     {"scholarship_query", "bot_info", "bot_functionality", "scholarship_types"},
                     12, 10)
        is_personalized == SearchAny(personalized_patterns, user_input_lower)
        s2 == Scaled(s1, is_personalized, {"scholarship_personalized"}, 15, 10)
        is_scholarship_types == SearchAny(scholarship_types_patterns, user_input_lower)
        s3 == Scaled(s2, is_scholarship_types, {"scholarship_types"}, 15, 10)
        is_type_selection == SearchAny(scholarship_type_selection_patterns, user_input_lower)
        s4 == Scaled(s3, is_type_selection, {"scholarship_type_selection"}, 25, 10)
        is_negated == \E k \in 1..Len(negation_keywords) :
                          Contains(user_input_lemmatized, negation_keywords[k])
        s5 == Scaled(s4, is_negated,
                     {"scholarship_query", "scholarship_personalized", "scholarship_types",
                      "scholarship_type_selection"}, 5, 10)
        is_short == Len(SplitWords(user_input, 1)) <= 2
        s6 == Scaled(Raised(s5, is_short, "casual", Weight(100)),
                     is_short, {"general_conversation"}, 8, 10)
        personal_keyword_count ==
            KeywordHits(KeywordsOf("scholarship_personalized"), user_input_lemmatized)
        s7 == Scaled(s6, personal_keyword_count >= 3, {"scholarship_personalized"}, 13, 10)
        types_keyword_count ==
            KeywordHits(KeywordsOf("scholarship_types"), user_input_lemmatized)
        s8 == Scaled(s7, types_keyword_count >= 2, {"scholarship_types"}, 13, 10)
        type_selection_count ==
            KeywordHits(KeywordsOf("scholarship_type_selection"), user_input_lemmatized)
    IN  Scaled(s8, type_selection_count >= 1, {"scholarship_type_selection"}, 18, 10)

\* the last intent, in the order of the table, that has the greatest score
MaxIntentLast(intent_scores) ==
    LET best == { k \in 1..Len(intent_keywords) :
                    \A j \in 1..Len(intent_keywords) :
                        intent_scores[intent_keywords[j].intent]
                            <= intent_scores[intent_keywords[k].intent] }
    IN  intent_keywords[SetMax(best)].intent

\* max(intent_scores, key=intent_scores.get): the first intent, in the order
\* of the table, that has the greatest score
MaxIntent(intent_scores) ==
    LET best == { k \in 1..Len(intent_keywords) :
                    \A j \in 1..Len(intent_keywords) :
                        intent_scores[intent_keywords[j].intent]
                            <= intent_scores[intent_keywords[k].intent] }
    IN  intent_keywords[SetMin(best)].intent

\* the confidence floor 0.5 (src/main.py 314)
ConfidenceFloor == Weight(50)

analyze_query_type(user_input) ==
    LET intent_scores == IntentScores(user_input)
        max_intent == MaxIntent(intent_scores)
        max_score == intent_scores[max_intent]
    IN  IF max_score < ConfidenceFloor THEN "general_conversation" ELSE max_intent

(***************************************************************************)
(* The profile store: table user_details (src/main.py 38-54), the rows in *)
(* the order of their ids.                                                 *)
(***************************************************************************)
\* "no row": what query(UserDetails).first() returns on an empty table
NoRow ==
    [ id |-> 0, query |-> None, timestamp |-> 0 ] @@ [ k \in Range(DetailKeys) |-> None ]

\* the columns a request assigns
Columns == {"query", "timestamp"} \cup Range(DetailKeys)

\* db.session.query(UserDetails).first(): the row with the least id
First(rows) == IF rows = << >> THEN NoRow ELSE rows[1]

\* every utterance with a detail in it is persisted, whatever its intent
PersistIntentsAndCasual ==
    {"scholarship_personalized", "scholarship_type_selection", "scholarship_query", "casual"}

\* the intents whose requests write the profile (src/main.py 619)
PersistIntents == {"scholarship_personalized", "scholarship_type_selection", "scholarship_query"}

\* a merge that assigns every extracted field, None included
AssignedWithNone(existing_user, user_input, user_details, now) ==
    [ c \in DOMAIN existing_user |->
        IF c = "query" THEN user_input
        ELSE IF c = "timestamp" THEN now
        ELSE IF c \in Range(DetailKeys) THEN user_details[c]
        ELSE existing_user[c] ]

\* a merge that only fills the fields the record does not know yet
AssignedFillMissing(existing_user, user_input, user_details, now) ==
    [ c \in DOMAIN existing_user |->
        IF c = "query" THEN user_input
        ELSE IF c = "timestamp" THEN now
        ELSE IF c \in Range(DetailKeys) /\ existing_user[c] = None THEN user_details[c]
        ELSE existing_user[c] ]

\* the attribute values of existing_user after lines 621-626: the row that was
\* read, with the query, the timestamp and every extracted field that is not
\* None assigned
Assigned(existing_user, user_input, user_details, now) ==
    [ c \in DOMAIN existing_user |->
        IF c = "query" THEN user_input
        ELSE IF c = "timestamp" THEN now
        ELSE IF c \in Range(DetailKeys) /\ user_details[c] # None THEN user_details[c]
        ELSE existing_user[c] ]

\* UserDetails(query=..., caste=user_details.get('caste'), ...) (lines 630-642),
\* inserted with the next id and the default timestamp
NewUser(rows, user_input, user_details, now) ==
    [ id |-> Len(rows) + 1, query |-> user_input, timestamp |-> now ]
        @@ [ k \in Range(DetailKeys) |-> user_details[k] ]

\* a commit that updates the record that was read and never adds one
FlushNoInsert(rows, existing_user, user_input, user_details, now) ==
    IF existing_user = NoRow
    THEN rows
    ELSE LET obj == Assigned(existing_user, user_input, user_details, now)
         IN  [ rows EXCEPT ![existing_user.id] =
                 [ c \in DOMAIN existing_user |->
                     IF c \in Columns /\ obj[c] # existing_user[c] THEN obj[c] ELSE @[c] ] ]

\* db.session.commit() (line 647): the session flushes its pending changes.
\* A new object is inserted as a new row.  For a loaded object the unit of
\* work issues UPDATE ... WHERE id = <id> with the columns whose assigned
\* value differs from the value that was loaded; the other columns of the row
\* keep what the table holds.
Flush(rows, existing_user, user_input, user_details, now) ==
    IF existing_user = NoRow
    THEN Append(rows, NewUser(rows, user_input, user_details, now))
    ELSE LET obj == Assigned(existing_user, user_input, user_details, now)
         IN  [ rows EXCEPT ![existing_user.id] =
                 [ c \in DOMAIN existing_user |->
                     IF c \in Columns /\ obj[c] # existing_user[c] THEN obj[c] ELSE @[c] ] ]

\* a failed commit whose changes reach the table all the same
RollbackKeepsWrite(rows, existing_user, user_input, user_details, now) ==
    IF existing_user = NoRow
    THEN Append(rows, NewUser(rows, user_input, user_details, now))
    ELSE [ rows EXCEPT ![existing_user.id] =
             Assigned(existing_user, user_input, user_details, now) ]

\* db.session.rollback() (line 650): the pending changes are dropped and the
\* table keeps the rows it had
Rollback(rows, existing_user, user_input, user_details, now) == rows

(***************************************************************************)
(* create_scholarship_prompt (src/main.py 320-574).  A prompt is the      *)
(* record of the template that was chosen and of the values interpolated  *)
(* into it; Raise is the exception of line 544 (None.capitalize()).       *)
(***************************************************************************)
Raise == [ template |-> "AttributeError" ]

\* the keys of stored_details (lines 328-338): the profile without scholarship_type
StoredKeys == SubSeq(DetailKeys, 1, 9)

\* the lines "- Key: value" of details_str: the pairs whose value is not None
RECURSIVE DetailLines(_, _, _)
DetailLines(details, keys, k) ==
    IF k > Len(keys) THEN << >>
    ELSE (IF details[keys[k]] # None THEN << << keys[k], details[keys[k]] >> >> ELSE << >>)
         \o DetailLines(details, keys, k + 1)

\* known_details of the type-selection branch (lines 516-529)
KnownDetails(recent_user, user_input, scholarship_type) ==
    (IF recent_user # NoRow /\ recent_user.course_level # None
     THEN << << "course", IF recent_user.course_level = "ug" /\ Contains(Lower(user_input), "bsc")
                          THEN "BSc Computer Science" ELSE "Postgraduate" >> >>
     ELSE << >>)
    \o (IF recent_user # NoRow /\ recent_user.caste # None
        THEN << << "caste", Upper(recent_user.caste) >> >> ELSE << >>)
    \o DetailLines(recent_user, << "income", "gender" >>, 1)
    \o << << "scholarship_type", scholarship_type >> >>

\* the block follow_up_questions (lines 340-351), the same text in every prompt
\* that has it: the fields its eight questions ask for, in the order of the text
follow_up_questions ==
    << "caste", "income", "gender", "is_hostel", "cgpa", "is_minority", "has_disability",
       "ex_serviceman_parent" >>

\* a prompt that never has the block of questions
PromptWithoutQuestions(template, user_input, scholarship_type, details, summary, advice) ==
    [ template |-> template, user_input |-> user_input, scholarship_type |-> scholarship_type,
      details |-> details, summary |-> summary,
      common_mistakes |-> advice, follow_up_questions |-> << >> ]

\* advice: the template ends with {common_mistakes} and {follow_up_questions}
Prompt(template, user_input, scholarship_type, details, summary, advice) ==
    [ template |-> template, user_input |-> user_input, scholarship_type |-> scholarship_type,
      details |-> details, summary |-> summary,
      common_mistakes |-> advice,
      follow_up_questions |-> IF advice THEN follow_up_questions ELSE << >> ]

create_scholarship_prompt(user_input, user_details, query_type, rows) ==
    LET recent_user == First(rows)
        stored_scholarship_type == recent_user.scholarship_type
    IN  CASE query_type \in {"greeting", "bot_info", "bot_functionality", "casual"} ->
                Prompt(query_type, user_input, None, << >>, << >>, FALSE)
          [] query_type = "general_conversation" ->
                Prompt(query_type, user_input, None, << >>, << >>, TRUE)
          [] query_type = "scholarship_query" ->
                IF stored_scholarship_type # None
                THEN Prompt("scholarship_query/stored_type", user_input, stored_scholarship_type,
                            DetailLines(recent_user, StoredKeys, 1), << >>, TRUE)
                ELSE Prompt("scholarship_query/no_type", user_input, None, << >>, << >>, TRUE)
          [] query_type = "scholarship_personalized" ->
                IF stored_scholarship_type # None
                THEN Prompt("scholarship_personalized/stored_type", user_input,
                            stored_scholarship_type, DetailLines(user_details, DetailKeys, 1),
                            << >>, TRUE)
                ELSE Prompt("scholarship_personalized/no_type", user_input, None,
                            DetailLines(user_details, DetailKeys, 1), << >>, TRUE)
          [] query_type = "scholarship_types" ->
                Prompt(query_type, user_input, None, << >>, << >>, TRUE)
          [] query_type = "scholarship_type_selection" ->
                LET scholarship_type == user_details.scholarship_type
                IN  IF scholarship_type = None THEN Raise
                    ELSE Prompt(query_type, user_input, scholarship_type,
                                DetailLines(user_details, DetailKeys, 1),
                                KnownDetails(recent_user, user_input, scholarship_type), TRUE)

(***************************************************************************)
(* The service: POST /chat (chat_with_gemini, src/main.py 597-723).  Each *)
(* request is served by a handler of its own; the handlers run            *)
(* concurrently on the one table.  Requests are numbered as they arrive.  *)
(***************************************************************************)
\* the number of requests of one run
MaxRequests == 2

\* the greatest length of a text given to format_response on its own
MaxTextLen == 4

Requests == 1..MaxRequests

\* utterances sent to /chat; "Government" is the query of POST /test (line 843)
ChatQueries ==
    { "nice girl", "i am sc", "obc girl", "Government", "governmental aid", "i need fees" }

\* utterances around the limits of validate_input
BoundaryQueries ==
    { "", "hi", "  ok ", "obc", "hello", Repeat("a", MaxQueryLen + 1),
      "obc" \o Repeat(" ", MaxQueryLen - 3), "obc" \o Repeat(" ", MaxQueryLen - 2) }

\* texts the generative backend answers with
GeneratedTexts == { "## Schemes\n\n\n\n^ MahaDBT  \nApply now?" }

\* format_response on the texts of the backend, computed once
Formatted == [ t \in GeneratedTexts |-> format_response(t) ]

\* status codes of a failed upstream call
UpstreamErrors == { 429 }

\* the characters of the texts given to format_response on its own
FormatAlphabet == << "\n", " ", "#", BULLET, "a", "?" >>

RECURSIVE TextsOfLen(_)
TextsOfLen(n) ==
    IF n = 0 THEN { "" }
    ELSE { t \o FormatAlphabet[k] : t \in TextsOfLen(n - 1), k \in 1..Len(FormatAlphabet) }

FormatTexts == UNION { TextsOfLen(n) : n \in 0..MaxTextLen }

\* validate_input, extract_user_details and analyze_query_type are pure: their
\* values on the utterances of the runs, computed once
Validated == [ q \in ChatQueries \cup BoundaryQueries |-> validate_input(q) ]

ValidTexts == { Validated[q][2] : q \in { u \in DOMAIN Validated : Validated[u][1] } }

Extracted == [ t \in ValidTexts |-> extract_user_details(t) ]

Classified == [ t \in ValidTexts |-> analyze_query_type(t) ]

NoDetails == [ k \in Range(DetailKeys) |-> None ]

NoPrompt == [ template |-> None ]

\* the locals of a handler before its request arrives, with what the request
\* did so far: data is the body (<< >> without JSON data, << query >> otherwise),
\* db_write the fate of the profile write ("none", "committed", "rolled_back"),
\* calls the number of calls to the generative backend, outcome the outcome of
\* the last call
IdleRequest ==
    [ data |-> << >>, user_input |-> "", valid |-> FALSE, user_details |-> NoDetails,
      query_type |-> None, existing_user |-> NoRow, now |-> 0, prompt |-> NoPrompt,
      db_write |-> "none", calls |-> 0, outcome |-> None ]

\* the handler returns: its locals are gone, what the request did remains
Returned(r) ==
    [ IdleRequest EXCEPT !.valid = r.valid, !.db_write = r.db_write,
                         !.calls = r.calls, !.outcome = r.outcome ]

\* no response yet
NoResponse == [ status |-> 0, success |-> FALSE, error |-> None, response |-> None ]

ErrorResponse(status, error) ==
    [ status |-> status, success |-> FALSE, error |-> error, response |-> None ]

\* datetime.utcnow() as read by the handler of request w (lines 51 and 622):
\* a handler reads the clock once, and no two handlers read the same time
Now(w) == w

VARIABLES
    db,              \* the rows of table user_details
    api_key,         \* GEMINI_API_KEY is set (line 21)
    queries,         \* the utterances the clients of this run send
    started,         \* the number of requests received so far
    pc,              \* pc[w]: where the handler of request w is in chat_with_gemini
    req,             \* req[w]: the locals of the handler of request w
    resp,            \* resp[w]: the response to request w
    fmt_pc,          \* format_response on its own: the step
    fmt_in,          \*   the text given
    fmt_once,        \*   format_response(text)
    fmt_twice,       \*   format_response(format_response(text))
    und_pc,          \* extraction and classification on their own: the step
    und_input,       \*   the utterance given
    und_details,     \*   extract_user_details(user_input)
    und_type         \*   analyze_query_type(user_input)

chat_vars == << db, api_key, queries, started, pc, req, resp >>

fmt_vars == << fmt_pc, fmt_in, fmt_once, fmt_twice >>

und_vars == << und_pc, und_input, und_details, und_type >>

vars ==
    << db, api_key, queries, started, pc, req, resp, fmt_pc, fmt_in, fmt_once, fmt_twice,
       und_pc, und_input, und_details, und_type >>

\* a request arrives: POST /chat with a body
Receive(w, body) ==
    /\ pc[w] = "idle"
    /\ w = started + 1
    /\ started' = started + 1
    /\ req' = [ req EXCEPT ![w] = [ IdleRequest EXCEPT !.data = body ] ]
    /\ pc' = [ pc EXCEPT ![w] = "validate" ]
    /\ UNCHANGED << db, api_key, queries, resp, fmt_vars, und_vars >>

\* lines 600-614: the body is read and validated, the details are extracted and
\* the query is classified
Validate(w) ==
    /\ pc[w] = "validate"
    /\ IF req[w].data = << >>
       THEN /\ req' = [ req EXCEPT ![w] = Returned(@) ]
            /\ resp' = [ resp EXCEPT ![w] = ErrorResponse(400, "No JSON data provided") ]
            /\ pc' = [ pc EXCEPT ![w] = "done" ]
       ELSE LET checked == Validated[req[w].data[1]]
            IN  IF ~ checked[1]
                THEN /\ req' = [ req EXCEPT ![w] = Returned(@) ]
                     /\ resp' = [ resp EXCEPT ![w] = ErrorResponse(400, checked[2]) ]
                     /\ pc' = [ pc EXCEPT ![w] = "done" ]
                ELSE /\ req' = [ req EXCEPT ![w].user_input = checked[2],
                                            ![w].valid = TRUE,
                                            ![w].user_details = Extracted[checked[2]],
                                            ![w].query_type = Classified[checked[2]] ]
                     /\ resp' = resp
                     /\ pc' = [ pc EXCEPT ![w] = "read" ]
    /\ UNCHANGED << db, api_key, queries, started, fmt_vars, und_vars >>

\* a handler that looks at the credential before it writes the profile
ReadExistingChecksKey(w) ==
    /\ pc[w] = "read"
    /\ IF ~ api_key
       THEN /\ resp' = [ resp EXCEPT ![w] = ErrorResponse(500, "GEMINI_API_KEY not configured") ]
            /\ pc' = [ pc EXCEPT ![w] = "done" ]
            /\ req' = [ req EXCEPT ![w] = Returned(@) ]
       ELSE /\ resp' = resp
            /\ IF req[w].query_type \in PersistIntents
               THEN /\ req' = [ req EXCEPT ![w].existing_user = First(db), ![w].now = Now(w) ]
                    /\ pc' = [ pc EXCEPT ![w] = "commit" ]
               ELSE /\ pc' = [ pc EXCEPT ![w] = "prompt" ]
                    /\ req' = req
    /\ UNCHANGED << db, api_key, queries, started, fmt_vars, und_vars >>

\* lines 616-645: the record is read; a request of a persisting intent assigns
\* its fields to the record it found, or adds a new record to the session (a
\* request of another intent makes no use of the record it read)
ReadExisting(w) ==
    /\ pc[w] = "read"
    /\ IF req[w].query_type \in PersistIntents
       THEN /\ req' = [ req EXCEPT ![w].existing_user = First(db), ![w].now = Now(w) ]
            /\ pc' = [ pc EXCEPT ![w] = "commit" ]
       ELSE /\ pc' = [ pc EXCEPT ![w] = "prompt" ]
            /\ req' = req
    /\ UNCHANGED << db, api_key, queries, started, resp, fmt_vars, und_vars >>

\* lines 646-648: the commit succeeds
CommitOk(w) ==
    /\ pc[w] = "commit"
    /\ db' = Flush(db, req[w].existing_user, req[w].user_input, req[w].user_details, req[w].now)
    /\ req' = [ req EXCEPT ![w].db_write = "committed" ]
    /\ pc' = [ pc EXCEPT ![w] = "prompt" ]
    /\ UNCHANGED << api_key, queries, started, resp, fmt_vars, und_vars >>

\* lines 649-652: the commit raises; the session is rolled back and the request
\* returns 500
CommitFail(w) ==
    /\ pc[w] = "commit"
    /\ db' = Rollback(db, req[w].existing_user, req[w].user_input, req[w].user_details, req[w].now)
    /\ req' = [ req EXCEPT ![w] = Returned([ @ EXCEPT !.db_write = "rolled_back" ]) ]
    /\ resp' = [ resp EXCEPT ![w] = ErrorResponse(500, "Failed to store user details") ]
    /\ pc' = [ pc EXCEPT ![w] = "done" ]
    /\ UNCHANGED << api_key, queries, started, fmt_vars, und_vars >>

\* a handler that composes the prompt without looking at the credential
ComposePromptNoKeyCheck(w) ==
    /\ pc[w] = "prompt"
    /\ LET full_prompt == create_scholarship_prompt(req[w].user_input, req[w].user_details,
                                                    req[w].query_type, db)
       IN  IF full_prompt = Raise
           THEN /\ resp' = [ resp EXCEPT ![w] = ErrorResponse(500, "Server error") ]
                /\ pc' = [ pc EXCEPT ![w] = "done" ]
                /\ req' = [ req EXCEPT ![w] = Returned(@) ]
           ELSE /\ req' = [ req EXCEPT ![w].prompt = full_prompt ]
                /\ pc' = [ pc EXCEPT ![w] = "call" ]
                /\ resp' = resp
    /\ UNCHANGED << db, api_key, queries, started, fmt_vars, und_vars >>

\* lines 654-659: the credential is checked and the prompt is composed; an
\* exception of the composition is caught at line 721
ComposePrompt(w) ==
    /\ pc[w] = "prompt"
    /\ IF ~ api_key
       THEN /\ resp' = [ resp EXCEPT ![w] = ErrorResponse(500, "GEMINI_API_KEY not configured") ]
            /\ pc' = [ pc EXCEPT ![w] = "done" ]
            /\ req' = [ req EXCEPT ![w] = Returned(@) ]
       ELSE LET full_prompt == create_scholarship_prompt(req[w].user_input, req[w].user_details,
                                                         req[w].query_type, db)
            IN  IF full_prompt = Raise
                THEN /\ resp' = [ resp EXCEPT ![w] = ErrorResponse(500, "Server error") ]
                     /\ pc' = [ pc EXCEPT ![w] = "done" ]
                     /\ req' = [ req EXCEPT ![w] = Returned(@) ]
                ELSE /\ req' = [ req EXCEPT ![w].prompt = full_prompt ]
                     /\ pc' = [ pc EXCEPT ![w] = "call" ]
                     /\ resp' = resp
    /\ UNCHANGED << db, api_key, queries, started, fmt_vars, und_vars >>

\* the outcomes of requests.post (lines 673-679)
Outcomes ==
    { [ kind |-> "ok", text |-> t ] : t \in GeneratedTexts }
    \cup { [ kind |-> "no_candidates" ], [ kind |-> "timeout" ], [ kind |-> "network_error" ] }
    \cup { [ kind |-> "http_error", status |-> c ] : c \in UpstreamErrors }

\* what the handler returns for an outcome of the call (lines 681-720)
Respond(outcome) ==
    CASE outcome.kind = "ok" ->
            [ status |-> 200, success |-> TRUE, error |-> None,
              response |-> Formatted[outcome.text] ]
      [] outcome.kind = "no_candidates" -> ErrorResponse(500, "No response generated from Gemini")
      [] outcome.kind = "http_error" -> ErrorResponse(outcome.status, "Gemini API error")
      [] outcome.kind = "timeout" -> ErrorResponse(504, "Request timeout. Please try again.")
      [] outcome.kind = "network_error" -> ErrorResponse(500, "Network error")

\* a handler that posts again after a timeout
AttemptsRetry(outcome) == IF outcome.kind = "timeout" THEN 2 ELSE 1

\* the number of times the handler posts to the backend for one outcome
Attempts(outcome) == 1

\* lines 661-720: the call to the generative backend and the response
CallBackend(w, outcome) ==
    /\ pc[w] = "call"
    /\ req' = [ req EXCEPT ![w] = Returned([ @ EXCEPT !.calls = @ + Attempts(outcome),
                                                      !.outcome = outcome.kind ]) ]
    /\ resp' = [ resp EXCEPT ![w] = Respond(outcome) ]
    /\ pc' = [ pc EXCEPT ![w] = "done" ]
    /\ UNCHANGED << db, api_key, queries, started, fmt_vars, und_vars >>

Bodies == { << >> } \cup { << q >> : q \in queries }

ChatInit ==
    /\ db = << >>
    /\ api_key \in BOOLEAN
    /\ started = 0
    /\ pc = [ w \in Requests |-> "idle" ]
    /\ req = [ w \in Requests |-> IdleRequest ]
    /\ resp = [ w \in Requests |-> NoResponse ]

FmtIdle ==
    /\ fmt_pc = "off"
    /\ fmt_in = ""
    /\ fmt_once = ""
    /\ fmt_twice = ""

UndIdle ==
    /\ und_pc = "off"
    /\ und_input = ""
    /\ und_details = NoDetails
    /\ und_type = None

Init == ChatInit /\ queries = ChatQueries /\ FmtIdle /\ UndIdle

InitBoundary == ChatInit /\ queries = BoundaryQueries /\ FmtIdle /\ UndIdle

Next ==
    \E w \in Requests :
        \/ \E body \in Bodies : Receive(w, body)
        \/ Validate(w)
        \/ ReadExisting(w)
        \/ CommitOk(w)
        \/ CommitFail(w)
        \/ ComposePrompt(w)
        \/ \E outcome \in Outcomes : CallBackend(w, outcome)

Spec == Init /\ [][Next]_vars

\* the same service on the utterances around the limits of validate_input
SpecBoundary == InitBoundary /\ [][Next]_vars

(***************************************************************************)
(* format_response on its own: applied to a text, then to its own output  *)
(***************************************************************************)
FormatOnce ==
    /\ fmt_pc = "text"
    /\ fmt_once' = format_response(fmt_in)
    /\ fmt_pc' = "once"
    /\ UNCHANGED << fmt_in, fmt_twice, chat_vars, und_vars >>

FormatTwice ==
    /\ fmt_pc = "once"
    /\ fmt_twice' = format_response(fmt_once)
    /\ fmt_pc' = "twice"
    /\ UNCHANGED << fmt_in, fmt_once, chat_vars, und_vars >>

InitFormat ==
    /\ ChatInit
    /\ queries = {}
    /\ fmt_pc = "text"
    /\ fmt_in \in FormatTexts
    /\ fmt_once = ""
    /\ fmt_twice = ""
    /\ UndIdle

NextFormat == FormatOnce \/ FormatTwice

SpecFormat == InitFormat /\ [][NextFormat]_vars

(***************************************************************************)
(* extract_user_details and analyze_query_type on their own, applied to   *)
(* an utterance as chat_with_gemini applies them (src/main.py 612-613)    *)
(***************************************************************************)
\* the keywords of intent scholarship_type_selection (src/main.py 204-214)
TypeKeywords ==
    Range((CHOOSE data \in Range(intent_keywords) :
               data.intent = "scholarship_type_selection").keywords)

\* utterances given to the extractor and the classifier: the scenario of the
\* profile sentence, the type keywords alone, and utterances with and without
\* flags, ties and scores under the floor
Utterances ==
    TypeKeywords
    \cup { "I am an SC girl with 1.5 lakh income looking for government scholarships",
           "Government", "NGO", "nsp", "xyz", "aaa bbb ccc", "okay bsc",
           "how does this work help me", "hello", "what can you do", "no", "not sure",
           "i need fees", "i stay in hostel", "i am a day scholar", "i am not in hostel",
           "muslim student", "disabled student here", "my parent is ex-serviceman",
           "my income is 2 lakh", "8.5 cgpa" }

Extract ==
    /\ und_pc = "text"
    /\ und_details' = extract_user_details(und_input)
    /\ und_pc' = "extracted"
    /\ UNCHANGED << und_input, und_type, chat_vars, fmt_vars >>

Classify ==
    /\ und_pc = "extracted"
    /\ und_type' = analyze_query_type(und_input)
    /\ und_pc' = "classified"
    /\ UNCHANGED << und_input, und_details, chat_vars, fmt_vars >>

InitUnderstand ==
    /\ ChatInit
    /\ queries = {}
    /\ FmtIdle
    /\ und_pc = "text"
    /\ und_input \in Utterances
    /\ und_details = NoDetails
    /\ und_type = None

NextUnderstand == Extract \/ Classify

SpecUnderstand == InitUnderstand /\ [][NextUnderstand]_vars

(***************************************************************************)
(* The profile, and the steps of a request that the properties speak of   *)
(***************************************************************************)
\* the profile record the service reads and answers from
Profile == First(db)

\* request w leaves its commit with success in this step
Commits(w) == pc[w] = "commit" /\ pc'[w] = "prompt"

\* request w leaves its commit with a failure in this step
FailsCommit(w) == pc[w] = "commit" /\ pc'[w] = "done"

\* request w skips the profile write in this step (its intent does not persist)
SkipsWrite(w) == pc[w] = "read" /\ pc'[w] = "prompt"

\* request w has just committed and still holds its locals
JustCommitted(w) == pc[w] = "prompt" /\ req[w].db_write = "committed"

\* len(user_input.strip()) of the utterances of the runs, computed once
TrimmedLength == [ q \in ChatQueries \cup BoundaryQueries |-> Len(Strip(q)) ]

(***************************************************************************)
(* C1  A profile field that holds a known value is never set back to     *)
(* unknown: no step takes a field of a stored record from a value to      *)
(* None, and when a request whose extraction yields None for a field      *)
(* commits, the stored value of that field is unchanged by the commit.    *)
(***************************************************************************)
C1_KnownFieldNeverUnset ==
    [][ /\ Len(db') >= Len(db)
        /\ \A i \in 1..Len(db) : \A k \in Range(DetailKeys) :
              db[i][k] # None => db'[i][k] # None
        /\ \A w \in Requests : \A k \in Range(DetailKeys) :
              Commits(w) /\ req[w].existing_user # NoRow /\ req[w].user_details[k] = None
                  => db'[req[w].existing_user.id][k] = db[req[w].existing_user.id][k]
      ]_vars

\* a request that extracted nothing for a field the record knows has committed,
\* and the record still holds the value
C1_Witness ==
    \E w \in Requests : \E k \in Range(DetailKeys) :
        /\ JustCommitted(w)
        /\ req[w].existing_user # NoRow
        /\ req[w].user_details[k] = None
        /\ req[w].existing_user[k] # None
        /\ Profile[k] = req[w].existing_user[k]

(***************************************************************************)
(* C2  At any moment table user_details holds at most one record: after   *)
(* any number of requests, interleaved in any way, the number of stored   *)
(* records is 0 or 1.                                                      *)
(***************************************************************************)
C2_AtMostOneRecord == Len(db) <= 1

(***************************************************************************)
(* C3  As stated: every valid request handled while a profile record      *)
(* exists, whatever its intent, leaves each field for which its           *)
(* extraction yields a concrete value overwritten with that value when    *)
(* its persistence step is over.                                           *)
(***************************************************************************)
C3_EveryValidRequestOverwrites ==
    [][ \A w \in Requests : \A k \in Range(DetailKeys) :
            (Commits(w) \/ SkipsWrite(w)) /\ db # << >> /\ req[w].user_details[k] # None
                => First(db')[k] = req[w].user_details[k]
      ]_vars

(***************************************************************************)
(* C3  As the code has it: when a request of a persisting intent that     *)
(* read a record commits, each field whose extracted value is concrete    *)
(* and differs from the value the request read is overwritten in that     *)
(* record with the extracted value, and if the record still is as the     *)
(* request read it, every field with a concrete extracted value holds     *)
(* that value after the commit; a request of another intent, and a        *)
(* request whose commit fails, leave the table as it is.                  *)
(***************************************************************************)
C3_PersistingRequestOverwrites ==
    [][ \A w \in Requests :
          /\ Commits(w) /\ req[w].existing_user # NoRow
                => LET read == req[w].existing_user
                       details == req[w].user_details
                   IN  \A k \in Range(DetailKeys) :
                          /\ details[k] # None /\ details[k] # read[k]
                                => db'[read.id][k] = details[k]
                          /\ details[k] # None /\ db[read.id] = read
                                => db'[read.id][k] = details[k]
          /\ SkipsWrite(w) \/ FailsCommit(w) => db' = db
      ]_vars

\* a request has overwritten a known field of the record with another value
C3_Witness ==
    \E w \in Requests : \E k \in Range(DetailKeys) :
        /\ JustCommitted(w)
        /\ req[w].existing_user # NoRow
        /\ req[w].existing_user[k] # None
        /\ req[w].user_details[k] # None
        /\ req[w].user_details[k] # req[w].existing_user[k]
        /\ Profile[k] = req[w].user_details[k]

(***************************************************************************)
(* C4  As stated: when the persistence step of a valid request that found *)
(* no record is over, exactly one record exists, whatever the intent of   *)
(* the request.                                                            *)
(***************************************************************************)
C4_FirstValidRequestCreates ==
    [][ \A w \in Requests :
            (Commits(w) \/ SkipsWrite(w)) /\ db = << >> => Len(db') = 1
      ]_vars

(***************************************************************************)
(* C4  As the code has it: when a request of a persisting intent commits  *)
(* while the table is empty, exactly one record exists after the commit   *)
(* and it holds the query and the extracted fields of that request; a     *)
(* request of another intent, and a request whose commit fails, create    *)
(* no record.                                                              *)
(***************************************************************************)
C4_PersistingRequestCreates ==
    [][ \A w \in Requests :
          /\ Commits(w) /\ db = << >>
                => /\ Len(db') = 1
                   /\ db'[1].query = req[w].user_input
                   /\ \A k \in Range(DetailKeys) : db'[1][k] = req[w].user_details[k]
          /\ SkipsWrite(w) \/ FailsCommit(w) => Len(db') = Len(db)
      ]_vars

\* the first persisting request has committed and its record is the only one
C4_Witness ==
    \E w \in Requests :
        /\ JustCommitted(w)
        /\ req[w].existing_user = NoRow
        /\ Len(db) = 1
        /\ Profile.query = req[w].user_input

(***************************************************************************)
(* C5  /chat answers 400 to every query whose trimmed length is under 3   *)
(* or whose length is over 1000, and only to those among the requests     *)
(* that carry a query; a rejected request writes nothing to the table and *)
(* makes no outbound call.                                                 *)
(***************************************************************************)
C5_RejectsOutOfRangeQueries ==
    [][ \A w \in Requests :
            pc[w] = "validate" /\ pc'[w] # "validate" /\ req[w].data # << >>
                => LET query == req[w].data[1]
                       out_of_range == TrimmedLength[query] < MinQueryLen \/ Len(query) > MaxQueryLen
                   IN  /\ resp'[w].status = 400 <=> out_of_range
                       /\ out_of_range
                             => /\ pc'[w] = "done"
                                /\ ~ resp'[w].success
                                /\ db' = db
                                /\ req'[w].db_write = "none"
                                /\ req'[w].calls = 0
      ]_vars

\* a query of more than 1000 characters with a short trimmed text was rejected,
\* and nothing was written or called for it
C5_Witness ==
    \E w \in Requests :
        /\ pc[w] = "done"
        /\ resp[w].status = 400
        /\ resp[w].error = "Query too long. Please keep it under 1000 characters"
        /\ req[w].db_write = "none"
        /\ req[w].calls = 0

(***************************************************************************)
(* C6  As stated: without GEMINI_API_KEY every valid request ends with    *)
(* status 500 and the configuration error message, never with a success,  *)
(* and no outbound call is made.                                           *)
(***************************************************************************)
C6_MissingKeyGivesConfigurationError ==
    ~ api_key =>
        \A w \in Requests :
            pc[w] = "done" /\ req[w].valid
                => /\ resp[w].status = 500
                   /\ resp[w].error = "GEMINI_API_KEY not configured"
                   /\ ~ resp[w].success
                   /\ req[w].calls = 0

(***************************************************************************)
(* C6  As the code has it: without GEMINI_API_KEY every valid request     *)
(* ends with status 500, never with a success, and no outbound call is    *)
(* made; the message is the configuration error message, unless the       *)
(* profile write of the request failed, and then it is the storage error  *)
(* message.                                                                *)
(***************************************************************************)
C6_MissingKeyGivesError ==
    ~ api_key =>
        \A w \in Requests :
            /\ req[w].calls = 0
            /\ pc[w] = "done" /\ req[w].valid
                  => /\ resp[w].status = 500
                     /\ ~ resp[w].success
                     /\ resp[w].response = None
                     /\ resp[w].error = IF req[w].db_write = "rolled_back"
                                        THEN "Failed to store user details"
                                        ELSE "GEMINI_API_KEY not configured"

\* without the key, a valid request has ended with the configuration error
\* after its profile write was committed
C6_Witness ==
    /\ ~ api_key
    /\ \E w \in Requests :
          /\ pc[w] = "done"
          /\ req[w].valid
          /\ req[w].db_write = "committed"
          /\ resp[w].status = 500
          /\ resp[w].error = "GEMINI_API_KEY not configured"

(***************************************************************************)
(* C7  A request makes at most one outbound call; a timeout of that call  *)
(* gives status 504 and any other network failure an error status, the    *)
(* call having been made once and the request being over.                 *)
(***************************************************************************)
C7_OneCallNoRetry ==
    \A w \in Requests :
        /\ req[w].calls <= 1
        /\ req[w].outcome = "timeout"
              => pc[w] = "done" /\ req[w].calls = 1 /\ resp[w].status = 504 /\ ~ resp[w].success
        /\ req[w].outcome = "network_error"
              => pc[w] = "done" /\ req[w].calls = 1 /\ resp[w].status >= 400 /\ ~ resp[w].success

\* a call timed out and the request ended with 504 after that one call
C7_Witness ==
    \E w \in Requests :
        /\ req[w].outcome = "timeout"
        /\ req[w].calls = 1
        /\ resp[w].status = 504

(***************************************************************************)
(* C8  As stated: a request whose profile write fails ends with status    *)
(* 500 and still attempts to answer, composing the prompt and making the  *)
(* outbound call.                                                          *)
(***************************************************************************)
C8_FailedWriteStillAnswers ==
    \A w \in Requests :
        pc[w] = "done" /\ req[w].db_write = "rolled_back" /\ api_key
            => resp[w].status = 500 /\ req[w].calls >= 1

(***************************************************************************)
(* C8  As the code has it: when the commit of a request fails the write   *)
(* is rolled back, so that the table is as it was before the commit, and  *)
(* the request ends there with status 500 and the storage error message:  *)
(* no prompt is composed and no outbound call is made.                    *)
(***************************************************************************)
C8_FailedWriteRollsBackAndEnds ==
    [][ \A w \in Requests :
            pc[w] = "commit" /\ req'[w].db_write = "rolled_back"
                => /\ db' = db
                   /\ pc'[w] = "done"
                   /\ resp'[w] = ErrorResponse(500, "Failed to store user details")
                   /\ req'[w].prompt = NoPrompt
                   /\ req'[w].calls = 0
                   /\ req'[w].outcome = None
      ]_vars

\* the commit of a request failed while a record was stored, and the request
\* ended with 500 without a call
C8_Witness ==
    \E w \in Requests :
        /\ pc[w] = "done"
        /\ req[w].db_write = "rolled_back"
        /\ resp[w].status = 500
        /\ req[w].calls = 0
        /\ db # << >>

(***************************************************************************)
(* C9  Requests handled concurrently do not fail because of one another,  *)
(* and the last write wins field by field: when a request commits, the    *)
(* profile holds, for every field that request wrote (a field for which   *)
(* it extracted a concrete value other than the value it had read), the   *)
(* value of that request.                                                  *)
(***************************************************************************)
C9_LastWriteWins ==
    [][ \A w \in Requests : \A k \in Range(DetailKeys) :
            /\ Commits(w)
            /\ req[w].user_details[k] # None
            /\ req[w].user_details[k] # req[w].existing_user[k]
            => First(db')[k] = req[w].user_details[k]
      ]_vars

(***************************************************************************)
(* C10  format_response is idempotent: applied to its own output it       *)
(* returns that output.                                                    *)
(***************************************************************************)
C10_FormatIdempotent == fmt_pc = "twice" => fmt_twice = fmt_once

\* the text ends with a question mark or an exclamation mark
EndsWithMark(text) == text # "" /\ Ch(text, Len(text)) \in {"?", "!"}

(***************************************************************************)
(* C11  As stated: for every text the output of format_response ends with *)
(* a question mark or an exclamation mark.                                 *)
(***************************************************************************)
C11_OutputEndsWithMark == fmt_pc = "once" => EndsWithMark(fmt_once)

(***************************************************************************)
(* C11  As the code has it: format_response appends nothing.  Its output  *)
(* ends with a question mark or an exclamation mark exactly when the text *)
(* it was given, without its trailing whitespace, ends with one.          *)
(***************************************************************************)
C11_OutputEndsAsTextEnds ==
    fmt_pc = "once" => (EndsWithMark(fmt_once) <=> EndsWithMark(Strip(fmt_in)))

\* a text that does not end with a mark was processed, and its output does not
\* end with one
C11_Witness ==
    /\ fmt_pc = "once"
    /\ fmt_in = "#a"
    /\ fmt_once = "# a"
    /\ ~ EndsWithMark(fmt_once)

(***************************************************************************)
(* C12  For the profile sentence the extractor returns caste sc, gender   *)
(* female, income "1.5 lakh" and scholarship type government, and the     *)
(* classifier returns scholarship_personalized or                          *)
(* scholarship_type_selection.                                             *)
(***************************************************************************)
C12_ProfileSentence ==
    /\ und_pc = "classified"
    /\ und_input = "I am an SC girl with 1.5 lakh income looking for government scholarships"
    => /\ und_details.caste = "sc"
       /\ und_details.gender = "female"
       /\ und_details.income = "1.5 lakh"
       /\ und_details.scholarship_type = "government"
       /\ und_type \in {"scholarship_personalized", "scholarship_type_selection"}

\* the final scores of the utterances
FinalScores == [ u \in Utterances |-> IntentScores(u) ]

\* an utterance of at most two words that is, up to case and surrounding
\* blanks, one keyword of the scholarship_type_selection intent
TypeKeywordAlone(user_input) ==
    /\ Len(SplitWords(user_input, 1)) <= 2
    /\ Strip(Lower(user_input)) \in TypeKeywords

(***************************************************************************)
(* C13  An utterance of at most two words that is a scholarship-type      *)
(* keyword alone is classified as scholarship_type_selection: its boosted *)
(* score exceeds the casual score raised by the short-utterance bonus.    *)
(***************************************************************************)
C13_TypeKeywordAloneSelectsType ==
    und_pc = "classified" /\ TypeKeywordAlone(und_input)
    => /\ und_type = "scholarship_type_selection"
       /\ FinalScores[und_input]["scholarship_type_selection"]
              > FinalScores[und_input]["casual"]
       /\ FinalScores[und_input]["casual"] >= Weight(100)

C13_Witness ==
    /\ und_pc = "classified"
    /\ und_input = "Government"
    /\ TypeKeywordAlone(und_input)
    /\ und_type = "scholarship_type_selection"

\* request w composes its prompt in this step
Composes(w) == pc[w] = "prompt" /\ pc'[w] = "call"

\* the profile a request knows when it composes its prompt: the fields of its
\* own query, and for the others those of the stored record
MergedProfile(w) ==
    [ k \in Range(DetailKeys) |->
        IF req[w].user_details[k] # None THEN req[w].user_details[k] ELSE First(db)[k] ]

\* the first field, in the order of priority, that a profile does not know
FirstMissing(profile) ==
    LET order == << "caste", "income", "gender", "is_hostel", "cgpa", "is_minority",
                    "has_disability", "ex_serviceman_parent" >>
        missing == { k \in 1..Len(order) : profile[order[k]] = None }
    IN  IF missing = {} THEN "generic" ELSE order[SetMin(missing)]

Embeds(prompt, key) ==
    \/ \E k \in 1..Len(prompt.details) : prompt.details[k][1] = key
    \/ \E k \in 1..Len(prompt.summary) :
          prompt.summary[k][1] = (IF key = "course_level" THEN "course" ELSE key)
    \/ key = "scholarship_type" /\ prompt.scholarship_type # None

ScholarshipIntents ==
    {"scholarship_query", "scholarship_personalized", "scholarship_types",
     "scholarship_type_selection"}

(***************************************************************************)
(* C15  For every scholarship intent the composed prompt embeds every     *)
(* non-null field of the merged profile: the fields known from earlier    *)
(* turns as well as the fields extracted from the current query.          *)
(***************************************************************************)
C15_PromptEmbedsMergedProfile ==
    [][ \A w \in Requests :
          Composes(w) /\ req[w].query_type \in ScholarshipIntents
          => \A key \in Range(DetailKeys) :
                MergedProfile(w)[key] # None => Embeds(req'[w].prompt, key) ]_vars

\* the intents in the order of the intent table
IntentOrder ==
    << "greeting", "bot_info", "bot_functionality", "casual", "scholarship_query",
       "scholarship_personalized", "scholarship_types", "scholarship_type_selection",
       "general_conversation" >>

\* the greatest of the final scores of an utterance
TopScore(user_input) == SetMax({ FinalScores[user_input][i] : i \in Range(IntentOrder) })

\* the first intent of the table whose final score is the greatest
FirstTop(user_input) ==
    IntentOrder[SetMin({ k \in 1..Len(IntentOrder) :
                           FinalScores[user_input][IntentOrder[k]] = TopScore(user_input) })]

(***************************************************************************)
(* C16  The classifier returns the intent with the greatest final score,  *)
(* the first in the order of the intent table when several tie, and       *)
(* general_conversation exactly when that greatest score is below the     *)
(* confidence floor 0.5; the result is always one of the nine intents.    *)
(***************************************************************************)
C16_ArgmaxFirstOnTiesWithFloor ==
    und_pc = "classified"
    => /\ und_type \in Range(IntentOrder)
       /\ Len(IntentOrder) = 9
       /\ (und_type = "general_conversation") <=> (2 * TopScore(und_input) < ScoreUnit)
       /\ 2 * TopScore(und_input) >= ScoreUnit => und_type = FirstTop(und_input)

\* two intents tie above the floor, and the earlier of the table is returned
C16_Witness ==
    /\ und_pc = "classified"
    /\ und_input = "okay bsc"
    /\ FinalScores[und_input]["casual"] = FinalScores[und_input]["scholarship_personalized"]
    /\ FinalScores[und_input]["casual"] = TopScore(und_input)
    /\ 2 * TopScore(und_input) >= ScoreUnit
    /\ und_type = "casual"

\* the flags of the profile, each with the patterns that set it to True and the
\* patterns that set it to False
Flags ==
    << [ flag |-> "is_hostel", positive |-> << hostel_pattern >>,
         negative |-> << not_hostel_pattern >> ],
       [ flag |-> "is_minority", positive |-> << caste_patterns[5][2] >>, negative |-> << >> ],
       [ flag |-> "has_disability", positive |-> << disability_pattern >>, negative |-> << >> ],
       [ flag |-> "ex_serviceman_parent", positive |-> << ex_serviceman_pattern >>,
         negative |-> << >> ] >>

(***************************************************************************)
(* C17  The boolean flags of the extractor are tri-state: when no pattern *)
(* of a flag matches the input the flag is unknown, never false, and a    *)
(* flag is false only when a negative pattern of that flag matched.       *)
(***************************************************************************)
C17_FlagsAreTriState ==
    und_pc \in {"extracted", "classified"}
    => \A k \in 1..Len(Flags) :
          LET value == und_details[Flags[k].flag]
              text == Strip(Lower(und_input))
          IN  /\ value \in {True, False, None}
              /\ ~ SearchAny(Flags[k].positive \o Flags[k].negative, text) => value = None
              /\ value = False => SearchAny(Flags[k].negative, text)

\* an utterance that matches the negative pattern of one flag and no pattern of
\* the others
C17_Witness ==
    /\ und_pc = "extracted"
    /\ und_input = "i am a day scholar"
    /\ und_details.is_hostel = False
    /\ und_details.is_minority = None
    /\ und_details.has_disability = None
    /\ und_details.ex_serviceman_parent = None

\* the intents whose requests do not touch the store
ReadOnlyIntents ==
    {"greeting", "bot_info", "bot_functionality", "casual", "scholarship_types",
     "general_conversation"}

\* request w takes a step
Steps(w) == pc'[w] # pc[w]

(***************************************************************************)
(* C18  A request classified as greeting, bot_info, bot_functionality,    *)
(* casual, scholarship_types or general_conversation leaves the store as  *)
(* it found it, query and timestamp included, even when details were      *)
(* extracted from its utterance: none of its steps changes a record.      *)
(***************************************************************************)
C18_ReadOnlyIntentsLeaveStore ==
    [][ \A w \in Requests :
          /\ Steps(w)
          /\ req[w].query_type \in ReadOnlyIntents \/ req'[w].query_type \in ReadOnlyIntents
          => /\ db' = db
             /\ req'[w].db_write = "none"
             /\ pc'[w] # "commit" ]_vars

\* a casual utterance with a detail in it has been answered, and the store is
\* still empty
C18_Witness ==
    \E w \in Requests :
        /\ pc[w] = "done"
        /\ started = 1
        /\ req[w].valid
        /\ req[w].db_write = "none"
        /\ resp[w].status = 200
        /\ Extracted["nice girl"].gender = "female"
        /\ Classified["nice girl"] = "casual"
        /\ queries = ChatQueries
        /\ db = << >>

\* the responses of a request that got past the profile write and then failed:
\* no credential, a timeout, an error of the backend or of the network
FailedAfterWrite ==
    { ErrorResponse(500, "GEMINI_API_KEY not configured"),
      ErrorResponse(504, "Request timeout. Please try again."),
      ErrorResponse(500, "Network error"),
      ErrorResponse(500, "No response generated from Gemini") }
    \cup { ErrorResponse(c, "Gemini API error") : c \in UpstreamErrors }

\* request w ends in this step with one of these responses
EndsFailed(w) == pc[w] # "done" /\ pc'[w] = "done" /\ resp'[w] \in FailedAfterWrite

(***************************************************************************)
(* C19  As stated: in every request the profile write is committed before *)
(* the credential check and the outbound call and is never undone; a      *)
(* request that ends with the missing-credential 500, a timeout 504 or an *)
(* upstream error leaves the profile holding the fields extracted from    *)
(* its query.                                                              *)
(***************************************************************************)
C19_FailedRequestLeavesProfileUpdated ==
    [][ \A w \in Requests :
          EndsFailed(w)
          => /\ req'[w].db_write = "committed"
             /\ \A k \in Range(DetailKeys) :
                   req[w].user_details[k] # None
                       => db' # << >> /\ First(db')[k] = req[w].user_details[k] ]_vars

\* C19, as the code has it: a request of a persisting intent commits its
\* write before the credential is checked and before the call; the steps of a
\* request after its commit change no record, so the write is never undone;
\* and a request of a persisting intent that ends with the missing-credential
\* 500, a timeout 504 or an upstream error has committed its write.  A
\* request of another intent writes nothing.
C19_WriteCommittedBeforeKeyCheckAndCall ==
    [][ \A w \in Requests :
          /\ Steps(w) /\ pc[w] \in {"prompt", "call"}
                => /\ db' = db
                   /\ req[w].db_write
                         = IF req[w].query_type \in PersistIntents THEN "committed" ELSE "none"
                   /\ req'[w].db_write = req[w].db_write
          /\ EndsFailed(w)
                => req'[w].db_write
                      = IF req[w].query_type \in PersistIntents THEN "committed" ELSE "none"
          /\ Commits(w) /\ db = << >>
                => \A k \in Range(DetailKeys) : db'[1][k] = req[w].user_details[k]
      ]_vars

\* the only request of the run, of a persisting intent, timed out, and the
\* record holds its query and the field extracted from it
C19_Witness ==
    \E w \in Requests :
        /\ started = 1
        /\ pc[w] = "done"
        /\ resp[w] = ErrorResponse(504, "Request timeout. Please try again.")
        /\ req[w].db_write = "committed"
        /\ Len(db) = 1
        /\ Profile.query = "i am sc"
        /\ Profile.caste = "sc"

(***************************************************************************)
(* C20  Every valid request classified as scholarship_type_selection,     *)
(* with the credential configured, yields a prompt that names a concrete  *)
(* scholarship type (government, private, ngo or college) and goes on to  *)
(* the outbound call: the composition never fails for that intent, also   *)
(* when the extraction returned no scholarship type.                       *)
(***************************************************************************)
C20_TypeSelectionAlwaysComposes ==
    [][ \A w \in Requests :
          /\ Steps(w) /\ pc[w] = "prompt" /\ api_key
          /\ req[w].query_type = "scholarship_type_selection"
          => /\ pc'[w] = "call"
             /\ req'[w].prompt.scholarship_type \in {"government", "private", "ngo", "college"}
      ]_vars

\* an utterance of at most two words (len(user_input.split()) <= 2)
ShortUtterance(user_input) == Len(SplitWords(user_input, 1)) <= 2

(***************************************************************************)
(* C21  For an utterance of at most two words the classifier never        *)
(* returns general_conversation: the short-utterance bonus gives casual a *)
(* score of at least 1.0, above the confidence floor 0.5, and             *)
(* general_conversation, which has no keywords, always scores 0.          *)
(***************************************************************************)
C21_ShortUtteranceNeverGeneral ==
    und_pc = "classified"
    => /\ FinalScores[und_input]["general_conversation"] = 0
       /\ ShortUtterance(und_input)
             => /\ und_type # "general_conversation"
                /\ FinalScores[und_input]["casual"] >= ScoreUnit
                /\ 2 * FinalScores[und_input]["casual"] > ScoreUnit

\* a short utterance that matches no keyword at all: only the bonus scores, and
\* the utterance is casual
C21_Witness ==
    /\ und_pc = "classified"
    /\ und_input = "xyz"
    /\ ShortUtterance(und_input)
    /\ \A i \in Intents \ {"casual"} : FinalScores[und_input][i] = 0
    /\ FinalScores[und_input]["casual"] = ScoreUnit
    /\ und_type = "casual"

====
